---- MODULE Spec2Model ----
(***************************************************************************)
(* khatru-payments: the paid-access engine of a Nostr relay.               *)
(*                                                                         *)
(* The model follows the Go sources:                                       *)
(*   PaidAccessStorage (Members map, RWMutex, JSON file)                   *)
(*   System (New, HasAccess, CreateInvoice, VerifyPayment,                 *)
(*           RejectEventHandler, startCleanupRoutine)                      *)
(*   zbdWebhookHandler, ZBDProvider, PhoenixdProvider                      *)
(*                                                                         *)
(* Strings are sequences of symbols.  A symbol is one character, or the    *)
(* atom "P1"/"P2" standing for the 64 hex characters of one public key.    *)
(* Times are integers in an abstract unit; ZeroTime is Go's time.Time{}.   *)
(***************************************************************************)
EXTENDS Integers, Sequences, FiniteSets, TLC

\* ------------------------------------------------------------------ bounds
\* Largest time.Duration (Go: 1<<63 - 1 ns, about 292 years), in model units.
MaxDuration == 4
\* How far the clock runs past the construction of the System.
TimeSpan == 2
\* Charges the remote payment backend accepts in one run.
MaxCharges == 1
\* Gate checks that ask for payment in one run (caps paymentRequests).
MaxRequests == 1
MaxProviderCharges == 2

\* ------------------------------------------------------- program constants
\* Access durations of calculateExpirationTime, in model units
\* (only their order matters: week < month < year < MaxDuration).
Week == 1
Month == 2
Year == 3
\* Default Config.PaymentAmount, millisatoshis.
PaymentAmount == 21000

\* time.Time{}: year 1, the "never expires" sentinel.
ZeroTime == 0
MinDuration == 0 - MaxDuration
\* Any real wall clock is more than MaxDuration after ZeroTime.
StartTime == MaxDuration + 2
MaxTime == StartTime + TimeSpan

\* The goroutines: one serving the HTTP endpoints (verification, webhook, and
\* direct use of the store), one serving relay events (the admission gate),
\* and the cleanup routine started by New.
HttpThread == "http"
RelayThread == "relay"
Reconciler == "rec"
Workers == {HttpThread, RelayThread}
Threads == Workers \cup {Reconciler}
NoThread == "none"

\* The public keys of the actors.
Pubkeys == {<<"P1">>, <<"P2">>}
EmptyString == <<>>

\* ----------------------------------------------------------- time package
\* Time.Sub: the difference, saturated to the Duration range.
TimeSub(t, u) ==
    IF t - u > MaxDuration THEN MaxDuration
    ELSE IF t - u < MinDuration THEN MinDuration
    ELSE t - u

\* Time.Add.
TimeAdd(t, d) == t + d

\* Time.IsZero.
IsZero(t) == t = ZeroTime

\* Time.After / Time.Before: strict comparisons of instants.
After(t, u) == t > u
Before(t, u) == t < u

\* ------------------------------------------------ configuration (System)
\* Config.AccessDuration values the System is built with.
AccessDurationOptions == {"forever", "1month"}

\* calculateExpirationTime(duration), evaluated at time t.
calculateExpirationTime(duration, t) ==
    CASE duration = "forever" -> ZeroTime
      [] duration = "1week" -> TimeAdd(t, Week)
      [] duration = "1month" -> TimeAdd(t, Month)
      [] duration = "1year" -> TimeAdd(t, Year)
      [] OTHER -> TimeAdd(t, Month)

\* New: accessDuration := calculateExpirationTime(cfg).Sub(time.Now()).
NewAccessDuration(duration, t) ==
    TimeSub(calculateExpirationTime(duration, t), t)

\* ------------------------------------------------------ PaidAccessStorage
\* A PaidAccessMember (the Pubkey field is the key of the map).
Member(paymentHash, expiresAt, createdAt, amount) ==
    [PaymentHash |-> paymentHash, ExpiresAt |-> expiresAt,
     CreatedAt |-> createdAt, Amount |-> amount]

NoMembers == [p \in {} |-> Member(<<>>, 0, 0, 0)]

\* AddPaidAccess, lines 86-89: the expiry of a grant made at time t.
GrantExpiry(t, duration) ==
    IF duration = 0 THEN ZeroTime ELSE TimeAdd(t, duration)

\* AddPaidAccess, lines 91-99: pas.Members[pubkey] = member.
PutMember(members, pubkey, paymentHash, amount, duration, t) ==
    [p \in DOMAIN members \cup {pubkey} |->
        IF p = pubkey
        THEN Member(paymentHash, GrantExpiry(t, duration), t, amount)
        ELSE members[p]]

\* HasAccess, lines 118-128, on the map as it is at time t.
HasAccessValue(members, pubkey, t) ==
    IF pubkey \notin DOMAIN members THEN FALSE
    ELSE IF ~IsZero(members[pubkey].ExpiresAt)
            /\ After(t, members[pubkey].ExpiresAt) THEN FALSE
    ELSE TRUE

\* A scan that also deletes the records that expire at t itself.  C15 does
\* not hold of it.
ExpiredKeysAtOrBefore(members, t) ==
    {p \in DOMAIN members :
        ~IsZero(members[p].ExpiresAt) /\ ~Before(t, members[p].ExpiresAt)}

\* CleanupExpired, lines 139-144: the keys the scan deletes at time t.
ExpiredKeys(members, t) ==
    {p \in DOMAIN members :
        ~IsZero(members[p].ExpiresAt) /\ After(t, members[p].ExpiresAt)}

RemoveKeys(members, keys) ==
    [p \in DOMAIN members \ keys |-> members[p]]

\* GetStats, lines 159-174, on the map as it is at time t.
GetStats(members, t) ==
    LET active == {p \in DOMAIN members :
                      IsZero(members[p].ExpiresAt) \/ Before(t, members[p].ExpiresAt)}
    IN [total_members |-> Cardinality(DOMAIN members),
        active_members |-> Cardinality(active),
        expired_members |-> Cardinality(DOMAIN members \ active)]

\* ------------------------------------------------------------ strconv, fmt
Digits == <<"0", "1", "2", "3", "4", "5", "6", "7", "8", "9">>

IsDigit(c) == \E d \in 1..10 : Digits[d] = c

DigitValue(c) == (CHOOSE d \in 1..10 : Digits[d] = c) - 1

\* fmt.Sprintf("%d", n) for n >= 0.
RECURSIVE FormatInt(_)
FormatInt(n) ==
    IF n < 10 THEN <<Digits[n + 1]>>
    ELSE FormatInt(n \div 10) \o <<Digits[(n % 10) + 1]>>

RECURSIVE DigitsValue(_)
DigitsValue(s) ==
    IF s = <<>> THEN 0
    ELSE 10 * DigitsValue(SubSeq(s, 1, Len(s) - 1)) + DigitValue(s[Len(s)])

\* strconv.ParseInt(s, 10, 64) on unsigned decimal strings: err iff s is
\* empty or holds a symbol that is no digit.
ParseIntOk(s) == s # <<>> /\ \A k \in 1..Len(s) : IsDigit(s[k])
ParseIntValue(s) == IF ParseIntOk(s) THEN DigitsValue(s) ELSE 0

\* ---------------------------------------------- invoice description, ZBD
\* "WoT Relay Access - pubkey:"
DescriptionHead ==
    <<"W", "o", "T", " ", "R", "e", "l", "a", "y", " ",
      "A", "c", "c", "e", "s", "s", " ", "-", " ",
      "p", "u", "b", "k", "e", "y", ":">>

\* System.CreateInvoice, line 216:
\* fmt.Sprintf("WoT Relay Access - pubkey:%s", pubkey).
SystemDescription(pubkey) == DescriptionHead \o pubkey

\* extractPubkeyFromDescription: prefix := "pubkey:".
PubkeyPrefix == <<"p", "u", "b", "k", "e", "y", ":">>

extractPubkeyFromDescription(description) ==
    IF Len(description) > Len(PubkeyPrefix)
       /\ SubSeq(description, 1, Len(PubkeyPrefix)) = PubkeyPrefix
    THEN SubSeq(description, Len(PubkeyPrefix) + 1, Len(description))
    ELSE EmptyString

\* generatePaymentHash: sha256 of "request:pubkey:unix", kept as its preimage
\* (the hash is used only as an injective name).
generatePaymentHash(paymentRequest, pubkey, unix) ==
    <<"sha256", paymentRequest, pubkey, unix>>

\* ------------------------------------------------- the remote backends
\* What the n-th charge of the backend looks like.
ChargeId(n) == <<"charge", n>>
Bolt11(n) == <<"lnbc", n>>
PhoenixdHash(n) == <<"phash", n>>

\* Amount strings a ZBD backend may echo for a request of `amount` msat:
\* the amount itself, the amount in sats, or nothing parseable.
EchoAmounts(amount) == {FormatInt(amount), FormatInt(amount \div 1000), EmptyString}

\* How a remote call ends: a response with status 200, a transport failure
\* (timeout, connection refused, cancelled context), a non-success status,
\* or "record not found" (404).
CreateOutcomes == {"ok", "neterr"}
VerifyOutcomes == {"ok", "neterr", "notfound", "httperr"}

NoInvoice ==
    [PaymentRequest |-> <<>>, PaymentHash |-> <<>>, Amount |-> 0,
     Description |-> <<>>]

\* An invoice amount that ignores the echo.  C6 (amended) does not hold of it.
ZBDInvoiceAmountRequested(amount, echo) == amount

\* ZBDProvider.CreateInvoice, lines 173-178: the invoice amount is the echoed
\* amount, or the requested one when the echo does not parse.
ZBDInvoiceAmount(amount, echo) ==
    IF ParseIntOk(echo) THEN ParseIntValue(echo) ELSE amount

\* ZBDProvider.CreateInvoice, lines 184 and 205-211.
ZBDInvoice(n, amount, echo, description, pubkey, t) ==
    [PaymentRequest |-> Bolt11(n),
     PaymentHash |-> generatePaymentHash(Bolt11(n), pubkey, t),
     Amount |-> ZBDInvoiceAmount(amount, echo),
     Description |-> description]

\* PhoenixdProvider.CreateInvoice, lines 293-296: msat to sat, at least 1.
PhoenixdAmountSat(amount) ==
    IF amount \div 1000 = 0 THEN 1 ELSE amount \div 1000

\* PhoenixdProvider.CreateInvoice, lines 351-357.
PhoenixdInvoice(n, amount, description) ==
    [PaymentRequest |-> Bolt11(n),
     PaymentHash |-> PhoenixdHash(n),
     Amount |-> amount,
     Description |-> description]

\* The charge the backend records for the n-th invoice.
RemoteCharge(n, amountString, amountSat, description, hash) ==
    [ID |-> ChargeId(n), Amount |-> amountString, AmountSat |-> amountSat,
     Description |-> description, Request |-> Bolt11(n),
     Status |-> "pending", PaymentHash |-> hash]

\* ------------------------------------------------------------ the file
\* The JSON document of the access store: absent, empty (zero bytes), or a
\* snapshot of the Members map.
MissingFile == [state |-> "missing", members |-> NoMembers]
EmptyFile == [state |-> "empty", members |-> NoMembers]
JsonFile(members) == [state |-> "json", members |-> members]

\* PaidAccessStorage.Load into a fresh store.
Load(f) == IF f.state = "json" THEN f.members ELSE NoMembers

\* How ioutil.WriteFile ends: the whole document written, the file not
\* opened at all, or the file truncated and the write failed.
WriteOutcomes == {"ok", "denied", "truncated"}

\* PaidAccessStorage.Save, lines 73-78: the file after the write.
SavedFile(f, members, outcome) ==
    CASE outcome = "ok" -> JsonFile(members)
      [] outcome = "denied" -> f
      [] OTHER -> EmptyFile

\* Files the store may find at start: none, or the data of an earlier run
\* with one member expiring soon and one permanent member.
InitFiles ==
    {MissingFile,
     JsonFile([p \in Pubkeys |->
                 IF p = <<"P1">>
                 THEN Member(<<"old">>, StartTime + 1, StartTime - 1, PaymentAmount)
                 ELSE Member(<<"old">>, ZeroTime, StartTime - 1, PaymentAmount)])}

Providers == {"zbd", "phoenixd"}

\* Config.Provider values an operator may write: the two providers and a
\* name New does not know.
ProviderNames == Providers \cup {"other"}

\* New, lines 135-158: the error of the provider switch; credentials says
\* whether the selected provider's required fields are set (ZBDAPIKey and
\* LightningAddress, or PhoenixdPassword).
NewError(provider, credentials) ==
    IF provider \notin Providers THEN "unsupported"
    ELSE IF ~credentials THEN "credentials"
    ELSE ""

\* An eager New that would open the stores before it looks at the provider.
\* C29 does not hold of it.
NewMembersEager(provider, credentials, f) == Load(f)

\* New, line 161: NewPaidAccessStorage loads the file, which New
\* reaches only after the provider is built.
NewMembers(provider, credentials, f) ==
    IF NewError(provider, credentials) # "" THEN NoMembers ELSE Load(f)

\* The goroutines' position after New: waiting for work, or, when New
\* returned an error, not there at all (line 173 is not reached and no
\* System exists to call).
NewPc(provider, credentials) ==
    IF NewError(provider, credentials) # "" THEN "none" ELSE "idle"

\* ------------------------------------------------------------- the state
VARIABLES
    now,                \* the wall clock
    cfgProvider,        \* Config.Provider
    cfgCredentials,     \* Config: the selected provider's credentials are set
    cfgDuration,        \* Config.AccessDuration
    accessDuration,     \* System.accessDuration
    Members,            \* PaidAccessStorage.Members
    file,               \* the paid-access file on disk
    mutexW,             \* PaidAccessStorage.mutex: the thread holding Lock
    paymentRequests,    \* System.paymentRequests
    successfulPayments, \* System.successfulPayments
    chargeMap,          \* provider: payment hash -> charge reference
    pubkeyMap,          \* provider: payment hash -> pubkey
    charges,            \* the remote backend's charges
    Mappings,           \* System.chargeMappingStorage.Mappings
    cmsMutex,           \* ChargeMappingStorage.mutex: the thread holding Lock
    mappingFile,        \* the charge-mapping file on disk
    chargeMappingStorage, \* the provider's chargeMappingStorage field
    muReaders,          \* provider.mu: read locks held, per thread
    muPending,          \* provider.mu: threads waiting in Lock
    pc,                 \* where each thread is
    op,                 \* each thread's call: arguments, locals, results
    granted             \* pubkeys a grant was ever applied to (history)

vars == <<now, cfgProvider, cfgCredentials, cfgDuration, accessDuration,
          Members, file, mutexW, paymentRequests, successfulPayments,
          chargeMap, pubkeyMap, charges, Mappings, cmsMutex, mappingFile,
          chargeMappingStorage, muReaders, muPending, pc, op, granted>>

cfgVars == <<cfgProvider, cfgCredentials, cfgDuration, accessDuration>>
muVars == <<muReaders, muPending>>
mapVars == <<Mappings, cmsMutex, mappingFile, chargeMappingStorage, muVars>>
storeVars == <<Members, file, mutexW, granted>>
counterVars == <<paymentRequests, successfulPayments>>
providerVars == <<chargeMap, pubkeyMap, charges>>

NoPayload == [kind |-> "empty", Invoice |-> <<>>, Amount |-> 0]
GenericPayload == [kind |-> "generic", Invoice |-> <<>>, Amount |-> 0]
JsonPayload(invoice) ==
    [kind |-> "json", Invoice |-> invoice.PaymentRequest, Amount |-> invoice.Amount]

NoHook ==
    [decodes |-> FALSE, ID |-> <<>>, Status |-> "", Amount |-> <<>>,
     Description |-> <<>>]

NoOp ==
    [name |-> "none", pubkey |-> <<>>, hash |-> <<>>, amount |-> 0, dur |-> 0,
     outcome |-> "", echo |-> <<>>, paid |-> FALSE, err |-> "", ok |-> FALSE,
     blocked |-> FALSE, payload |-> NoPayload, hook |-> NoHook, status |-> 0,
     verif |-> "nil", before |-> 0,
     ref |-> <<>>, found |-> FALSE, layer |-> "", todo |-> {}, nested |-> FALSE]

NoMap == [h \in {} |-> <<>>]

\* The JSON document of the mapping store: absent, empty, or a snapshot.
MissingMappingFile == [state |-> "missing", mappings |-> [h \in {} |-> <<>>]]
EmptyMappingFile == [state |-> "empty", mappings |-> [h \in {} |-> <<>>]]
JsonMappingFile(mappings) == [state |-> "json", mappings |-> mappings]

\* ChargeMappingStorage.load into a fresh store, lines 201-220.
LoadMappings(f) == IF f.state = "json" THEN f.mappings ELSE [h \in {} |-> <<>>]

\* ChargeMappingStorage.save, lines 223-230: the file after the write.
SavedMappingFile(f, mappings, outcome) ==
    CASE outcome = "ok" -> JsonMappingFile(mappings)
      [] outcome = "denied" -> f
      [] OTHER -> EmptyMappingFile

\* The provider's chargeMappingStorage field as New leaves it: New builds the
\* provider with NewZBDProvider / NewPhoenixdProvider, which do not set it,
\* and hands the System's mapping store to nobody.
ProviderMappingStorage == "nil"

Init ==
    /\ now = StartTime
    /\ cfgProvider \in ProviderNames
    /\ cfgCredentials \in BOOLEAN
    /\ cfgDuration \in AccessDurationOptions
    /\ accessDuration = NewAccessDuration(cfgDuration, now)
    /\ file \in InitFiles
    /\ Members = NewMembers(cfgProvider, cfgCredentials, file)
    /\ mutexW = NoThread
    /\ paymentRequests = 0
    /\ successfulPayments = 0
    /\ chargeMap = NoMap
    /\ pubkeyMap = NoMap
    /\ charges = <<>>
    /\ Mappings = NoMap
    /\ cmsMutex = NoThread
    /\ mappingFile = MissingMappingFile
    /\ chargeMappingStorage = ProviderMappingStorage
    /\ muReaders = [t \in Threads |-> 0]
    /\ muPending = {}
    /\ pc = [t \in Threads |-> NewPc(cfgProvider, cfgCredentials)]
    /\ op = [t \in Threads |-> NoOp]
    /\ granted = DOMAIN Members

\* ------------------------------------------------- PaidAccessStorage steps
\* sync.RWMutex: RLock returns once no writer holds or awaits the lock.
\* A read-locked section makes no blocking call, so it is one step.
CanRLock == mutexW = NoThread
\* Lock returns once no other thread holds the lock in either mode.
CanLock == mutexW = NoThread

Goto(t, label) == pc' = [pc EXCEPT ![t] = label]

\* No worker is about to hand a result to its caller.  Handing over a result
\* touches nothing another thread reads, so it is taken before anything else.
Settled == \A u \in Workers : pc[u] # "ret"

\* The holder of the mutex waits in Save for its own lock: nobody will ever
\* release the mutex.
Wedged == mutexW # NoThread /\ pc[mutexW] = "Save"

\* A thread that waits for the store's mutex for ever.
Waiting(t) ==
    /\ pc[t] \in {"HasAccess", "Reject", "Save", "AddPaidAccess", "CleanupExpired"}
    /\ Wedged

\* Calls are started one at a time: a new one starts when every other call
\* has returned or waits for ever.
Quiet == \A u \in Workers : pc[u] = "idle" \/ Waiting(u)

\* PaidAccessStorage.HasAccess, called directly.
CallHasAccess(t, pubkey) ==
    /\ pc[t] = "idle"
    /\ Quiet
    /\ Goto(t, "HasAccess")
    /\ op' = [op EXCEPT ![t] = [NoOp EXCEPT !.name = "HasAccess", !.pubkey = pubkey]]
    /\ UNCHANGED <<now, cfgVars, mapVars, storeVars, counterVars, providerVars>>

HasAccessStep(t) ==
    /\ pc[t] = "HasAccess"
    /\ Settled
    /\ CanRLock
    /\ op' = [op EXCEPT ![t].ok = HasAccessValue(Members, op[t].pubkey, now)]
    /\ Goto(t, "ret")
    /\ UNCHANGED <<now, cfgVars, mapVars, storeVars, counterVars, providerVars>>

\* PaidAccessStorage.Save, called directly (it is exported).
CallSave(t) ==
    /\ pc[t] = "idle"
    /\ Quiet
    /\ Goto(t, "Save")
    /\ op' = [op EXCEPT ![t] = [NoOp EXCEPT !.name = "Save"]]
    /\ UNCHANGED <<now, cfgVars, mapVars, storeVars, counterVars, providerVars>>

\* Save: RLock, marshal, write the file, RUnlock.  Called directly it
\* returns to the caller; called from AddPaidAccess or CleanupExpired the
\* caller goes on to its deferred Unlock.
SaveStep(t) ==
    /\ pc[t] = "Save"
    /\ Settled
    /\ CanRLock
    /\ \E w \in WriteOutcomes :
        /\ file' = SavedFile(file, Members, w)
        /\ op' = [op EXCEPT ![t].err = IF w = "ok" THEN "" ELSE "save"]
    /\ Goto(t, IF op[t].name = "Save" THEN "ret" ELSE "Unlock")
    /\ UNCHANGED <<now, cfgVars, mapVars, Members, mutexW, granted, counterVars, providerVars>>

\* PaidAccessStorage.AddPaidAccess, called directly.
CallAddPaidAccess(t, pubkey, duration) ==
    /\ pc[t] = "idle"
    /\ Quiet
    /\ Goto(t, "AddPaidAccess")
    /\ op' = [op EXCEPT ![t] =
                [NoOp EXCEPT !.name = "AddPaidAccess", !.pubkey = pubkey,
                             !.hash = <<"direct">>, !.amount = PaymentAmount,
                             !.dur = duration]]
    /\ UNCHANGED <<now, cfgVars, mapVars, storeVars, counterVars, providerVars>>

\* AddPaidAccess, lines 83-99: Lock, build the member, store it; next is
\* the call of Save on line 101, with the lock still held.
AddPaidAccessStep(t) ==
    /\ pc[t] = "AddPaidAccess"
    /\ Settled
    /\ CanLock
    /\ mutexW' = t
    /\ Members' = PutMember(Members, op[t].pubkey, op[t].hash, op[t].amount,
                            op[t].dur, now)
    /\ granted' = granted \cup {op[t].pubkey}
    /\ Goto(t, "Save")
    /\ UNCHANGED <<now, cfgVars, mapVars, file, op, counterVars, providerVars>>

\* CleanupExpired, lines 133-151: Lock, delete the expired members, then
\* Save if any was deleted, else the deferred Unlock.
CleanupExpiredStep(t) ==
    /\ pc[t] = "CleanupExpired"
    /\ Settled
    /\ CanLock
    /\ mutexW' = t
    /\ Members' = RemoveKeys(Members, ExpiredKeys(Members, now))
    /\ Goto(t, IF ExpiredKeys(Members, now) # {} THEN "Save" ELSE "Unlock")
    /\ UNCHANGED <<now, cfgVars, mapVars, file, granted, op, counterVars, providerVars>>

\* A return from AddPaidAccess or CleanupExpired that keeps the store's lock.
\* C27 does not hold of it.
UnlockStepKeepsLock(t) ==
    /\ pc[t] = "Unlock"
    /\ Settled
    /\ Goto(t, IF op[t].name = "CleanupExpired" THEN "MappingCleanup" ELSE "ret")
    /\ UNCHANGED <<now, cfgVars, mapVars, storeVars, counterVars, providerVars, op>>

\* The deferred mutex.Unlock of AddPaidAccess and CleanupExpired, and what
\* the caller does with the returned error:
\*   the Reconciler logs it and calls chargeMappingStorage.Cleanup;
\*   System.VerifyPayment and zbdWebhookHandler count the payment on nil.
UnlockStep(t) ==
    /\ pc[t] = "Unlock"
    /\ Settled
    /\ mutexW' = NoThread
    /\ Goto(t, IF op[t].name = "CleanupExpired" THEN "MappingCleanup" ELSE "ret")
    /\ successfulPayments' =
         IF op[t].name \in {"VerifyPayment", "Webhook"} /\ op[t].err = ""
         THEN successfulPayments + 1 ELSE successfulPayments
    /\ op' = [op EXCEPT
                ![t].verif = IF op[t].name = "VerifyPayment" /\ op[t].err # ""
                             THEN "nil" ELSE @,
                ![t].status = IF op[t].name = "Webhook"
                              THEN (IF op[t].err = "" THEN 200 ELSE 500) ELSE @]
    /\ UNCHANGED <<now, cfgVars, mapVars, Members, file, granted, paymentRequests, providerVars>>

\* ------------------------------------------------------------- providers
ChargeWithId(id) == CHOOSE n \in 1..Len(charges) : charges[n].ID = id
HasChargeWithHash(h) == \E n \in 1..Len(charges) : charges[n].PaymentHash = h
ChargeWithHash(h) == CHOOSE n \in 1..Len(charges) : charges[n].PaymentHash = h

Verification(err, paid, amount) == [err |-> err, paid |-> paid, amount |-> amount]

\* ZBDProvider.VerifyPayment, line 282: isPaid.
ZBDPaid(status) == status = "completed"

\* ZBDProvider.HandleWebhook, line 324: the statuses it goes on with.
WebhookSettled(status) == status = "completed" \/ status = "settled"

\* A verification that reports every known charge as paid.  C7 does not hold
\* of it.
ZBDVerifyPaymentAnyStatus(paymentHash, outcome) ==
    IF paymentHash \notin DOMAIN chargeMap THEN Verification("nomapping", FALSE, 0)
    ELSE IF outcome # "ok" THEN Verification("transport", FALSE, 0)
    ELSE Verification("", TRUE, 0)

\* ZBDProvider.VerifyPayment, lines 215-302.
ZBDVerifyPayment(paymentHash, outcome) ==
    IF paymentHash \notin DOMAIN chargeMap THEN Verification("nomapping", FALSE, 0)
    ELSE IF outcome = "neterr" THEN Verification("transport", FALSE, 0)
    ELSE IF outcome # "ok" THEN Verification("http", FALSE, 0)
    ELSE LET c == charges[ChargeWithId(chargeMap[paymentHash])]
         IN Verification("", ZBDPaid(c.Status),
                         IF c.Amount # EmptyString THEN ParseIntValue(c.Amount) ELSE 0)

\* VerifyPayment, line 424: amountMsat := paymentResp.ReceivedSat * 1000.
PhoenixdAmountMsat(receivedSat) == receivedSat * 1000

\* A verification that takes every unsuccessful status for "not found".
\* C14 does not hold of it.
PhoenixdVerifyPaymentLenient(paymentHash, outcome) ==
    IF paymentHash \notin DOMAIN chargeMap THEN Verification("", FALSE, 0)
    ELSE IF outcome = "neterr" THEN Verification("transport", FALSE, 0)
    ELSE IF outcome # "ok" \/ ~HasChargeWithHash(paymentHash)
         THEN Verification("", FALSE, 0)
    ELSE LET c == charges[ChargeWithHash(paymentHash)]
             receivedSat == IF c.Status = "completed" THEN c.AmountSat ELSE 0
         IN Verification("", c.Status = "completed", PhoenixdAmountMsat(receivedSat))

\* PhoenixdProvider.VerifyPayment, lines 361-438.
PhoenixdVerifyPayment(paymentHash, outcome) ==
    IF paymentHash \notin DOMAIN chargeMap THEN Verification("", FALSE, 0)
    ELSE IF outcome = "neterr" THEN Verification("transport", FALSE, 0)
    ELSE IF outcome = "notfound" \/ ~HasChargeWithHash(paymentHash)
         THEN Verification("", FALSE, 0)
    ELSE IF outcome # "ok" THEN Verification("http", FALSE, 0)
    ELSE LET c == charges[ChargeWithHash(paymentHash)]
             receivedSat == IF c.Status = "completed" THEN c.AmountSat ELSE 0
         IN Verification("", c.Status = "completed", PhoenixdAmountMsat(receivedSat))

\* s.provider.VerifyPayment(ctx, paymentHash).
ProviderVerifyPayment(paymentHash, outcome) ==
    IF cfgProvider = "zbd" THEN ZBDVerifyPayment(paymentHash, outcome)
    ELSE PhoenixdVerifyPayment(paymentHash, outcome)

\* The invoice s.provider.CreateInvoice returns when the backend answers 200.
ProviderInvoice(pubkey, echo) ==
    IF cfgProvider = "zbd"
    THEN ZBDInvoice(Len(charges) + 1, PaymentAmount, echo,
                    SystemDescription(pubkey), pubkey, now)
    ELSE PhoenixdInvoice(Len(charges) + 1, PaymentAmount, SystemDescription(pubkey))

\* The reference the provider keeps for the payment hash: the ZBD charge id,
\* or phoenixd's externalId (16 hex digits of sha256(pubkey + unix)).
ProviderReference(pubkey) ==
    IF cfgProvider = "zbd" THEN ChargeId(Len(charges) + 1)
    ELSE <<"ext", pubkey, now>>

\* A store that forgets every other entry when one is set. C34 does not
\* hold of it.
StoreMappingFresh(mappings, paymentHash, chargeID) ==
    [x \in {paymentHash} |-> chargeID]

\* ChargeMappingStorage.Store, line 237: cms.Mappings[paymentHash] = chargeID.
StoreMapping(mappings, paymentHash, chargeID) ==
    [x \in DOMAIN mappings \cup {paymentHash} |->
        IF x = paymentHash THEN chargeID ELSE mappings[x]]

\* System.CreateInvoice -> provider.CreateInvoice: what it does to the
\* backend, to the provider's maps and (with a store attached) to the
\* mapping store.
CreateInvoiceEffect(pubkey, outcome, echo) ==
    IF outcome # "ok" THEN UNCHANGED <<providerVars, Mappings, mappingFile>>
    ELSE LET inv == ProviderInvoice(pubkey, echo)
             h == inv.PaymentHash
         IN /\ charges' = Append(charges,
                   RemoteCharge(Len(charges) + 1,
                                IF cfgProvider = "zbd" THEN echo ELSE EmptyString,
                                IF cfgProvider = "zbd" THEN 0
                                ELSE PhoenixdAmountSat(PaymentAmount),
                                inv.Description, h))
            /\ chargeMap' = [x \in DOMAIN chargeMap \cup {h} |->
                               IF x = h THEN ProviderReference(pubkey) ELSE chargeMap[x]]
            /\ pubkeyMap' = [x \in DOMAIN pubkeyMap \cup {h} |->
                               IF x = h THEN pubkey ELSE pubkeyMap[x]]
            /\ IF chargeMappingStorage # "nil"
               THEN \E w \in WriteOutcomes :
                       /\ Mappings' = StoreMapping(Mappings, h, ProviderReference(pubkey))
                       /\ mappingFile' = SavedMappingFile(mappingFile, Mappings', w)
               ELSE UNCHANGED <<Mappings, mappingFile>>

Echoes == IF cfgProvider = "zbd" THEN EchoAmounts(PaymentAmount) ELSE {EmptyString}

\* Calls that may still create a charge, and gate checks that may still count.
PendingInvoices == Cardinality({u \in Threads : pc[u] \in {"Reject", "RejectInvoice"}})
PendingChecks == Cardinality({u \in Threads : pc[u] = "Reject"})
CanRequestInvoice == Len(charges) + PendingInvoices < MaxCharges

\* ----------------------------------------------------------------- System
\* System.CreateInvoice, called directly.
CallCreateInvoice(t, pubkey) ==
    /\ pc[t] = "idle"
    /\ Quiet
    /\ CanRequestInvoice
    /\ \E o \in CreateOutcomes, e \in Echoes :
        /\ CreateInvoiceEffect(pubkey, o, e)
        /\ op' = [op EXCEPT ![t] =
                    [NoOp EXCEPT !.name = "CreateInvoice", !.pubkey = pubkey,
                                 !.outcome = o,
                                 !.echo = IF o = "ok" THEN e ELSE EmptyString,
                                 !.err = IF o = "ok" THEN "" ELSE "provider",
                                 !.hash = IF o = "ok"
                                          THEN ProviderInvoice(pubkey, e).PaymentHash
                                          ELSE <<>>,
                                 !.amount = IF o = "ok"
                                            THEN ProviderInvoice(pubkey, e).Amount
                                            ELSE 0]]
    /\ Goto(t, "ret")
    /\ UNCHANGED <<now, cfgVars, cmsMutex, chargeMappingStorage, muVars, storeVars, counterVars>>

\* System.RejectEventHandler: the call.
CallReject(t, pubkey) ==
    /\ pc[t] = "idle"
    /\ Quiet
    /\ CanRequestInvoice
    /\ paymentRequests + PendingChecks < MaxRequests
    /\ Goto(t, "Reject")
    /\ op' = [op EXCEPT ![t] = [NoOp EXCEPT !.name = "Reject", !.pubkey = pubkey]]
    /\ UNCHANGED <<now, cfgVars, mapVars, storeVars, counterVars, providerVars>>

\* A gate that counts every check as a payment request.  C28 does not hold
\* of it.
RejectStepCountsAll(t) ==
    /\ pc[t] = "Reject"
    /\ Settled
    /\ CanRLock
    /\ paymentRequests' = paymentRequests + 1
    /\ IF HasAccessValue(Members, op[t].pubkey, now)
       THEN /\ op' = [op EXCEPT ![t].ok = TRUE, ![t].blocked = FALSE,
                                ![t].payload = NoPayload]
            /\ Goto(t, "ret")
       ELSE /\ op' = [op EXCEPT ![t].ok = FALSE]
            /\ Goto(t, "RejectInvoice")
    /\ UNCHANGED <<now, cfgVars, mapVars, storeVars, successfulPayments, providerVars>>

\* RejectEventHandler, lines 254-260: allow a paid user, else count the
\* payment request.
RejectStep(t) ==
    /\ pc[t] = "Reject"
    /\ Settled
    /\ CanRLock
    /\ IF HasAccessValue(Members, op[t].pubkey, now)
       THEN /\ op' = [op EXCEPT ![t].ok = TRUE, ![t].blocked = FALSE,
                                ![t].payload = NoPayload]
            /\ Goto(t, "ret")
            /\ UNCHANGED paymentRequests
       ELSE /\ op' = [op EXCEPT ![t].ok = FALSE]
            /\ paymentRequests' = paymentRequests + 1
            /\ Goto(t, "RejectInvoice")
    /\ UNCHANGED <<now, cfgVars, mapVars, storeVars, successfulPayments, providerVars>>

\* A gate that fails open: no payload when the invoice cannot be created.
\* C5 does not hold of it.
RejectPayloadFailOpen(outcome, invoice) ==
    IF outcome # "ok" THEN NoPayload ELSE JsonPayload(invoice)

\* The payload RejectEventHandler answers with, lines 263-276.
RejectPayload(outcome, invoice) ==
    IF outcome # "ok" THEN GenericPayload ELSE JsonPayload(invoice)

\* RejectEventHandler, lines 263-276: create the invoice and answer.
RejectInvoiceStep(t) ==
    /\ pc[t] = "RejectInvoice"
    /\ Settled
    /\ \E o \in CreateOutcomes, e \in Echoes :
        /\ CreateInvoiceEffect(op[t].pubkey, o, e)
        /\ op' = [op EXCEPT ![t].outcome = o,
                            ![t].echo = IF o = "ok" THEN e ELSE EmptyString,
                            ![t].blocked = TRUE,
                            ![t].payload =
                                RejectPayload(o, ProviderInvoice(op[t].pubkey, e))]
    /\ Goto(t, "ret")
    /\ UNCHANGED <<now, cfgVars, cmsMutex, chargeMappingStorage, muVars, storeVars, counterVars>>

\* Payment hashes a caller may present.
UnknownHash == <<"unknown">>
PresentableHashes == DOMAIN chargeMap \cup {UnknownHash}

\* System.VerifyPayment, lines 228-239: ask the provider; on an error or an
\* unpaid result return, else go on to AddPaidAccess.
CallVerifyPayment(t, paymentHash, pubkey) ==
    /\ pc[t] = "idle"
    /\ Quiet
    /\ \E o \in VerifyOutcomes :
        LET v == ProviderVerifyPayment(paymentHash, o)
        IN /\ op' = [op EXCEPT ![t] =
                       [NoOp EXCEPT !.name = "VerifyPayment", !.pubkey = pubkey,
                                    !.hash = paymentHash, !.outcome = o,
                                    !.err = v.err, !.paid = v.paid,
                                    !.amount = v.amount,
                                    !.dur = accessDuration,
                                    !.verif = IF v.err = "" THEN "value" ELSE "nil",
                                    !.before = successfulPayments]]
           /\ Goto(t, IF v.err = "" /\ v.paid THEN "AddPaidAccess" ELSE "ret")
    /\ UNCHANGED <<now, cfgVars, mapVars, storeVars, counterVars, providerVars>>

\* ---------------------------------------------------------------- webhook
Hook(id, status, amount, description) ==
    [decodes |-> TRUE, ID |-> id, Status |-> status, Amount |-> amount,
     Description |-> description]

\* The notification the ZBD backend sends for its n-th charge.
DeliveredHook(n) ==
    Hook(charges[n].ID, charges[n].Status, charges[n].Amount, charges[n].Description)

\* Bodies anyone can post to the endpoint: not JSON; a settled charge whose
\* description starts with the prefix; one with an amount that is no number.
PostedHooks ==
    {NoHook,
     Hook(ChargeId(0), "settled", FormatInt(PaymentAmount), PubkeyPrefix \o <<"P2">>),
     Hook(ChargeId(0), "completed", <<"x">>, PubkeyPrefix \o <<"P2">>)}

Hooks == {DeliveredHook(n) : n \in 1..Len(charges)} \cup PostedHooks

\* A webhook decoder that takes every status for a settled one.  C30 does
\* not hold of it.
HandleWebhookAnyStatus(hook) ==
    IF ~hook.decodes THEN [err |-> "decode", grant |-> FALSE, pubkey |-> <<>>, amount |-> 0]
    ELSE IF extractPubkeyFromDescription(hook.Description) = EmptyString
         THEN [err |-> "nopubkey", grant |-> FALSE, pubkey |-> <<>>, amount |-> 0]
    ELSE IF ~ParseIntOk(hook.Amount)
         THEN [err |-> "amount", grant |-> FALSE, pubkey |-> <<>>, amount |-> 0]
    ELSE [err |-> "", grant |-> TRUE,
          pubkey |-> extractPubkeyFromDescription(hook.Description),
          amount |-> ParseIntValue(hook.Amount)]

\* ZBDProvider.HandleWebhook, lines 316-349: err is "" for a nil error,
\* grant says whether a verification was returned.
HandleWebhook(hook) ==
    IF ~hook.decodes THEN [err |-> "decode", grant |-> FALSE, pubkey |-> <<>>, amount |-> 0]
    ELSE IF ~WebhookSettled(hook.Status)
         THEN [err |-> "", grant |-> FALSE, pubkey |-> <<>>, amount |-> 0]
    ELSE IF extractPubkeyFromDescription(hook.Description) = EmptyString
         THEN [err |-> "nopubkey", grant |-> FALSE, pubkey |-> <<>>, amount |-> 0]
    ELSE IF ~ParseIntOk(hook.Amount)
         THEN [err |-> "amount", grant |-> FALSE, pubkey |-> <<>>, amount |-> 0]
    ELSE [err |-> "", grant |-> TRUE,
          pubkey |-> extractPubkeyFromDescription(hook.Description),
          amount |-> ParseIntValue(hook.Amount)]

\* The HTTP status zbdWebhookHandler answers with when it does not grant.
WebhookStatus(hook) ==
    IF cfgProvider # "zbd" THEN 400
    ELSE IF HandleWebhook(hook).err # "" THEN 500
    ELSE 200

\* System.zbdWebhookHandler, lines 64-112: answer at once, or go on to
\* AddPaidAccess with the charge id as payment hash.
CallWebhook(t, hook) ==
    /\ pc[t] = "idle"
    /\ Quiet
    /\ LET r == HandleWebhook(hook)
           grants == cfgProvider = "zbd" /\ r.err = "" /\ r.grant /\ r.pubkey # EmptyString
       IN /\ op' = [op EXCEPT ![t] =
                      [NoOp EXCEPT !.name = "Webhook", !.hook = hook,
                                   !.pubkey = IF grants THEN r.pubkey ELSE <<>>,
                                   !.hash = IF grants THEN hook.ID ELSE <<>>,
                                   !.amount = IF grants THEN r.amount ELSE 0,
                                   !.dur = IF grants THEN accessDuration ELSE 0,
                                   !.paid = grants,
                                   !.status = IF grants THEN 0 ELSE WebhookStatus(hook),
                                   !.before = successfulPayments]]
          /\ Goto(t, IF grants THEN "AddPaidAccess" ELSE "ret")
    /\ UNCHANGED <<now, cfgVars, mapVars, storeVars, counterVars, providerVars>>

\* ------------------------------------------------------------- Reconciler
\* startCleanupRoutine: the ticker fires.
ReconcilerWake ==
    /\ pc[Reconciler] = "idle"
    /\ Settled
    /\ Goto(Reconciler, "CleanupExpired")
    /\ op' = [op EXCEPT ![Reconciler] = [NoOp EXCEPT !.name = "CleanupExpired"]]
    /\ UNCHANGED <<now, cfgVars, mapVars, storeVars, counterVars, providerVars>>

\* startCleanupRoutine, line 315: chargeMappingStorage.Cleanup takes the
\* mapping store's Lock and logs the number of mappings; it removes nothing.
MappingCleanupStep ==
    /\ pc[Reconciler] = "MappingCleanup"
    /\ Settled
    /\ cmsMutex = NoThread
    /\ cmsMutex' = Reconciler
    /\ Goto(Reconciler, "MappingUnlock")
    /\ UNCHANGED <<now, cfgVars, Mappings, mappingFile, chargeMappingStorage, muVars, storeVars, counterVars, providerVars, op>>

\* The deferred Unlock of Cleanup, then back to waiting for the ticker.
MappingUnlockStep ==
    /\ pc[Reconciler] = "MappingUnlock"
    /\ Settled
    /\ cmsMutex' = NoThread
    /\ Goto(Reconciler, "idle")
    /\ op' = [op EXCEPT ![Reconciler] = NoOp]
    /\ UNCHANGED <<now, cfgVars, Mappings, mappingFile, chargeMappingStorage, muVars, storeVars, counterVars, providerVars>>

\* ------------------------------------------------------------ environment
\* A call returns to its caller.
Return(t) ==
    /\ pc[t] = "ret"
    /\ Goto(t, "idle")
    /\ op' = [op EXCEPT ![t] = NoOp]
    /\ UNCHANGED <<now, cfgVars, mapVars, storeVars, counterVars, providerVars>>

\* Time passes.
Tick ==
    /\ Settled
    /\ now < MaxTime
    /\ now' = now + 1
    /\ UNCHANGED <<cfgVars, mapVars, storeVars, counterVars, providerVars, pc, op>>

\* The payer settles the n-th charge at the backend.
Pay(n) ==
    /\ Settled
    /\ charges[n].Status = "pending"
    /\ charges' = [charges EXCEPT ![n].Status = "completed"]
    /\ UNCHANGED <<now, cfgVars, mapVars, storeVars, counterVars, chargeMap, pubkeyMap, pc, op>>

\* Durations a direct caller of AddPaidAccess passes.
DirectDurations == {0, Week}

\* A step of a call in progress of thread t.
Proceed(t) ==
    \/ HasAccessStep(t)
    \/ SaveStep(t)
    \/ AddPaidAccessStep(t)
    \/ CleanupExpiredStep(t)
    \/ UnlockStep(t)
    \/ RejectStep(t)
    \/ RejectInvoiceStep(t)
    \/ Return(t)

\* The HTTP goroutine starts a call.
HttpCall(t) ==
    \/ CallSave(t)
    \/ \E p \in Pubkeys, d \in DirectDurations : CallAddPaidAccess(t, p, d)
    \/ \E p \in Pubkeys : CallCreateInvoice(t, p)
    \/ \E h \in PresentableHashes, p \in Pubkeys : CallVerifyPayment(t, h, p)
    \/ \E k \in Hooks : CallWebhook(t, k)

\* The relay goroutine starts a call: the gate, or System.VerifyPayment
\* (exported, and also served by a second HTTP goroutine) for a payment hash
\* an invoice was issued with.
RelayCall(t) ==
    \/ \E p \in Pubkeys : CallHasAccess(t, p)
    \/ \E p \in Pubkeys : CallReject(t, p)
    \/ \E h \in DOMAIN chargeMap, p \in Pubkeys : CallVerifyPayment(t, h, p)

Next ==
    \/ HttpCall(HttpThread)
    \/ RelayCall(RelayThread)
    \/ \E t \in Threads : Proceed(t)
    \/ ReconcilerWake
    \/ MappingCleanupStep
    \/ MappingUnlockStep
    \/ Tick
    \/ \E n \in 1..Len(charges) : Pay(n)

Spec == Init /\ [][Next]_vars

\* ---------------------------------------------------------------------
\* The providers and the mapping store used directly, with the store
\* attached (NewZBDProviderWithStorage / NewPhoenixdProviderWithStorage),
\* and the provider's mutex taken step by step.
\* ---------------------------------------------------------------------

\* Canonical amounts (msat) handed to CreateInvoice.
Amounts == {1500, PaymentAmount}

\* The identity invoices are issued to; CheckExistingPayments is asked
\* about every identity.
InvoicePubkeys == {<<"P1">>}

\* Hashes and references handed to Store and Get directly.
StoreHashes == {<<"h1">>, <<"h2">>}
StoreRefs == {ChargeId(1), ChargeId(2)}

\* What no provider or mapping-store operation touches.
systemVars == <<now, cfgVars, storeVars, counterVars, cmsMutex, chargeMappingStorage>>

\* NewChargeMappingStorage(filePath) followed by New*ProviderWithStorage:
\* the maps are empty, the store is attached, no System is built.
ProviderInit ==
    /\ now = StartTime
    /\ cfgProvider \in Providers
    /\ cfgCredentials = TRUE
    /\ cfgDuration = "1month"
    /\ accessDuration = NewAccessDuration(cfgDuration, now)
    /\ file = MissingFile
    /\ Members = NoMembers
    /\ mutexW = NoThread
    /\ paymentRequests = 0
    /\ successfulPayments = 0
    /\ chargeMap = NoMap
    /\ pubkeyMap = NoMap
    /\ charges = <<>>
    /\ mappingFile = MissingMappingFile
    /\ Mappings = LoadMappings(mappingFile)
    /\ cmsMutex = NoThread
    /\ chargeMappingStorage = "attached"
    /\ muReaders = [t \in Threads |-> 0]
    /\ muPending = {}
    /\ pc = [t \in Threads |-> IF t \in Workers THEN "idle" ELSE "none"]
    /\ op = [t \in Threads |-> NoOp]
    /\ granted = {}

\* provider.CreateInvoice up to the backend's answer: the request is sent
\* and, on success, the invoice is built; the maps are written next.
ProviderCreateInvoice(t, amount, pubkey) ==
    /\ Settled
    /\ pc[t] = "idle"
    /\ Len(charges) < MaxProviderCharges
    /\ \E outcome \in CreateOutcomes :
          IF outcome # "ok"
          THEN /\ Goto(t, "ret")
               /\ op' = [op EXCEPT ![t] = [NoOp EXCEPT !.name = "CreateInvoice",
                                                       !.pubkey = pubkey,
                                                       !.err = "transport"]]
               /\ UNCHANGED charges
          ELSE LET n == Len(charges) + 1
                   description == SystemDescription(pubkey)
                   inv == IF cfgProvider = "zbd"
                          THEN ZBDInvoice(n, amount, FormatInt(amount),
                                          description, pubkey, now)
                          ELSE PhoenixdInvoice(n, amount, description)
               IN /\ charges' = Append(charges,
                         RemoteCharge(n,
                                      IF cfgProvider = "zbd" THEN FormatInt(amount)
                                      ELSE EmptyString,
                                      IF cfgProvider = "zbd" THEN 0
                                      ELSE PhoenixdAmountSat(amount),
                                      description, inv.PaymentHash))
                  /\ op' = [op EXCEPT ![t] = [NoOp EXCEPT !.name = "CreateInvoice",
                                                          !.pubkey = pubkey,
                                                          !.hash = inv.PaymentHash,
                                                          !.amount = inv.Amount,
                                                          !.ref = ProviderReference(pubkey)]]
                  /\ Goto(t, "muLock")
    /\ UNCHANGED <<systemVars, chargeMap, pubkeyMap, Mappings, mappingFile, muVars>>

\* p.mu.Lock() is called: the writer is now waiting, and a waiting writer
\* keeps every later RLock out (sync.RWMutex).
MuLockCall(t) ==
    /\ Settled
    /\ pc[t] = "muLock"
    /\ muPending' = muPending \cup {t}
    /\ Goto(t, "muLockWait")
    /\ UNCHANGED <<systemVars, providerVars, Mappings, mappingFile, muReaders, op>>

\* p.mu.Lock() returns once no read lock is held; the maps are written and
\* the lock released. CreateInvoice writes both maps, VerifyPayment's
\* cache fill only the reference map.
MuLockAcquire(t) ==
    /\ Settled
    /\ pc[t] = "muLockWait"
    /\ \A u \in Threads : muReaders[u] = 0
    /\ muPending' = muPending \ {t}
    /\ chargeMap' = StoreMapping(chargeMap, op[t].hash, op[t].ref)
    /\ pubkeyMap' = IF op[t].name = "CreateInvoice"
                    THEN StoreMapping(pubkeyMap, op[t].hash, op[t].pubkey)
                    ELSE pubkeyMap
    /\ Goto(t, IF op[t].name # "CreateInvoice" THEN "verifyHttp"
               ELSE IF chargeMappingStorage # "nil" THEN "Store" ELSE "ret")
    /\ UNCHANGED <<systemVars, charges, Mappings, mappingFile, muReaders, op>>

\* ChargeMappingStorage.Store(paymentHash, chargeID) called directly.
CallStore(t, paymentHash, chargeID) ==
    /\ Settled
    /\ pc[t] = "idle"
    /\ op' = [op EXCEPT ![t] = [NoOp EXCEPT !.name = "Store",
                                            !.hash = paymentHash,
                                            !.ref = chargeID]]
    /\ Goto(t, "Store")
    /\ UNCHANGED <<systemVars, providerVars, Mappings, mappingFile, muVars>>

\* ChargeMappingStorage.Store under its Lock: the entry is set, the file
\* is written, the write's error is returned. CreateInvoice drops it.
StoreStep(t) ==
    /\ Settled
    /\ pc[t] = "Store"
    /\ cmsMutex = NoThread
    /\ \E w \in WriteOutcomes :
          /\ Mappings' = StoreMapping(Mappings, op[t].hash, op[t].ref)
          /\ mappingFile' = SavedMappingFile(mappingFile, Mappings', w)
          /\ op' = [op EXCEPT ![t].err =
                       IF op[t].name = "Store" /\ w # "ok" THEN "save" ELSE op[t].err]
    /\ Goto(t, "ret")
    /\ UNCHANGED <<systemVars, providerVars, muVars>>

\* ChargeMappingStorage.Get(paymentHash) called directly.
CallGet(t, paymentHash) ==
    /\ Settled
    /\ pc[t] = "idle"
    /\ cmsMutex = NoThread
    /\ op' = [op EXCEPT ![t] =
                [NoOp EXCEPT !.name = "Get",
                             !.hash = paymentHash,
                             !.found = paymentHash \in DOMAIN Mappings,
                             !.ref = IF paymentHash \in DOMAIN Mappings
                                     THEN Mappings[paymentHash] ELSE <<>>]]
    /\ Goto(t, "ret")
    /\ UNCHANGED <<systemVars, providerVars, Mappings, mappingFile, muVars>>

\* provider.VerifyPayment(paymentHash) called directly.
CallProviderVerifyPayment(t, paymentHash) ==
    /\ Settled
    /\ pc[t] = "idle"
    /\ op' = [op EXCEPT ![t] = [NoOp EXCEPT !.name = "VerifyPayment",
                                            !.hash = paymentHash]]
    /\ Goto(t, "verifyRLock")
    /\ UNCHANGED <<systemVars, providerVars, Mappings, mappingFile, muVars>>

\* VerifyPayment's lookup: RLock, read the cache, RUnlock; on a miss, with
\* a store attached, Get from the store; a durable hit goes on to Lock and
\* the cache fill. With no reference ZBD returns an error, phoenixd an
\* unpaid verification.
VerifyRLockStep(t) ==
    /\ Settled
    /\ pc[t] = "verifyRLock"
    /\ muPending = {}
    /\ LET h == op[t].hash
           after == IF op[t].nested THEN "checkLoop" ELSE "ret"
       IN IF h \in DOMAIN chargeMap
          THEN /\ op' = [op EXCEPT ![t].ref = chargeMap[h], ![t].layer = "cache"]
               /\ Goto(t, "verifyHttp")
          ELSE IF chargeMappingStorage # "nil" /\ h \in DOMAIN Mappings
          THEN /\ cmsMutex = NoThread
               /\ op' = [op EXCEPT ![t].ref = Mappings[h], ![t].layer = "durable"]
               /\ Goto(t, "muLock")
          ELSE /\ op' = [op EXCEPT ![t].layer = "none",
                                   ![t].paid = FALSE,
                                   ![t].err = ProviderVerifyPayment(h, "ok").err]
               /\ Goto(t, after)
    /\ UNCHANGED <<systemVars, providerVars, Mappings, mappingFile, muVars>>

\* VerifyPayment's request to the backend with the resolved reference.
VerifyHttpStep(t) ==
    /\ Settled
    /\ pc[t] = "verifyHttp"
    /\ \E outcome \in VerifyOutcomes :
          LET v == ProviderVerifyPayment(op[t].hash, outcome)
          IN op' = [op EXCEPT ![t].paid = v.paid, ![t].err = v.err,
                              ![t].amount = v.amount]
    /\ Goto(t, IF op[t].nested THEN "checkLoop" ELSE "ret")
    /\ UNCHANGED <<systemVars, providerVars, Mappings, mappingFile, muVars>>

\* PhoenixdProvider.CheckExistingPayments(pubkey) called.
CallCheckExistingPayments(t, pubkey) ==
    /\ Settled
    /\ cfgProvider = "phoenixd"
    /\ pc[t] = "idle"
    /\ op' = [op EXCEPT ![t] = [NoOp EXCEPT !.name = "CheckExistingPayments",
                                            !.pubkey = pubkey]]
    /\ Goto(t, "checkRLock")
    /\ UNCHANGED <<systemVars, providerVars, Mappings, mappingFile, muVars>>

\* p.mu.RLock() with the deferred RUnlock: the read lock is held for the
\* whole loop over pubkeyMap.
CheckRLockStep(t) ==
    /\ Settled
    /\ pc[t] = "checkRLock"
    /\ muPending = {}
    /\ muReaders' = [muReaders EXCEPT ![t] = 1]
    /\ op' = [op EXCEPT ![t].todo = {h \in DOMAIN pubkeyMap :
                                        pubkeyMap[h] = op[t].pubkey}]
    /\ Goto(t, "checkLoop")
    /\ UNCHANGED <<systemVars, providerVars, Mappings, mappingFile, muPending>>

\* One turn of the loop: return on a paid verification or at the end of
\* the map (releasing the read lock), else call VerifyPayment for the
\* next hash of this pubkey, in the map's arbitrary order.
CheckLoopStep(t) ==
    /\ Settled
    /\ pc[t] = "checkLoop"
    /\ IF (op[t].paid /\ op[t].err = "") \/ op[t].todo = {}
       THEN /\ muReaders' = [muReaders EXCEPT ![t] = 0]
            /\ op' = [op EXCEPT ![t].found = op[t].paid /\ op[t].err = "",
                                ![t].nested = FALSE]
            /\ Goto(t, "ret")
       ELSE /\ \E h \in op[t].todo :
                 op' = [op EXCEPT ![t].hash = h,
                                  ![t].todo = op[t].todo \ {h},
                                  ![t].nested = TRUE,
                                  ![t].paid = FALSE,
                                  ![t].err = ""]
            /\ Goto(t, "verifyRLock")
            /\ UNCHANGED muReaders
    /\ UNCHANGED <<systemVars, providerVars, Mappings, mappingFile, muPending>>

\* The process is restarted between calls: the provider's maps start
\* empty and the mapping store is loaded from its file.
Restart ==
    /\ \A t \in Workers : pc[t] = "idle"
    /\ chargeMap # NoMap \/ Mappings # LoadMappings(mappingFile)
    /\ chargeMap' = NoMap
    /\ pubkeyMap' = NoMap
    /\ Mappings' = LoadMappings(mappingFile)
    /\ UNCHANGED <<systemVars, charges, mappingFile, muVars, pc, op>>

ProviderCall(t) ==
    \/ \E a \in Amounts, p \in InvoicePubkeys : ProviderCreateInvoice(t, a, p)
    \/ \E h \in {UnknownHash} \cup {charges[n].PaymentHash : n \in 1..Len(charges)} :
          CallProviderVerifyPayment(t, h)
    \/ \E p \in Pubkeys : CallCheckExistingPayments(t, p)

ProviderProceed(t) ==
    \/ MuLockCall(t)
    \/ MuLockAcquire(t)
    \/ StoreStep(t)
    \/ VerifyRLockStep(t)
    \/ VerifyHttpStep(t)
    \/ CheckRLockStep(t)
    \/ CheckLoopStep(t)
    \/ Return(t)

ProviderNext ==
    \/ \E t \in Workers : ProviderCall(t)
    \/ \E t \in Workers : ProviderProceed(t)
    \/ Restart
    \/ \E n \in 1..Len(charges) : Pay(n)

ProviderSpec == ProviderInit /\ [][ProviderNext]_vars

\* ---------------------------------------------------------------------
\* The mapping store alone: NewChargeMappingStorage over a file that is
\* absent, empty, or holds an earlier snapshot, then Store and Get.
\* ---------------------------------------------------------------------

InitMappingFiles ==
    {MissingMappingFile, EmptyMappingFile}
        \cup {JsonMappingFile(StoreMapping(NoMap, h, c)) : h \in StoreHashes, c \in StoreRefs}

StorageInit ==
    /\ now = StartTime
    /\ cfgProvider = "zbd"
    /\ cfgCredentials = TRUE
    /\ cfgDuration = "1month"
    /\ accessDuration = NewAccessDuration(cfgDuration, now)
    /\ file = MissingFile
    /\ Members = NoMembers
    /\ mutexW = NoThread
    /\ paymentRequests = 0
    /\ successfulPayments = 0
    /\ chargeMap = NoMap
    /\ pubkeyMap = NoMap
    /\ charges = <<>>
    /\ mappingFile \in InitMappingFiles
    /\ Mappings = LoadMappings(mappingFile)
    /\ cmsMutex = NoThread
    /\ chargeMappingStorage = "nil"
    /\ muReaders = [t \in Threads |-> 0]
    /\ muPending = {}
    /\ pc = [t \in Threads |-> IF t \in Workers THEN "idle" ELSE "none"]
    /\ op = [t \in Threads |-> NoOp]
    /\ granted = {}

StorageNext ==
    \/ \E t \in Workers, h \in StoreHashes, c \in StoreRefs : CallStore(t, h, c)
    \/ \E t \in Workers, h \in StoreHashes : CallGet(t, h)
    \/ \E t \in Workers : StoreStep(t)
    \/ \E t \in Workers : Return(t)
    \/ Restart

StorageSpec == StorageInit /\ [][StorageNext]_vars

\* ------------------------------------------------------------ properties
\* C1: a HasAccess call answers true exactly when a record of the identity
\* exists and its expiry is the zero sentinel or strictly later than the time
\* of the call; when the time of the call equals the expiry it answers false.
C1_HasAccessIffStrictlyLater ==
    \A t \in Workers :
        (pc[t] = "ret" /\ op[t].name = "HasAccess") =>
            LET i == op[t].pubkey
            IN op[t].ok <=>
                 /\ i \in DOMAIN Members
                 /\ \/ Members[i].ExpiresAt = ZeroTime
                    \/ Members[i].ExpiresAt > now

\* C4: no call of AddPaidAccess waits for the store's own lock: a thread that
\* is about to take the read lock in Save does not hold the write lock.
C4_NeverWaitsOnOwnLock ==
    \A t \in Workers : pc[t] = "Save" => mutexW # t

\* C2: a call AddPaidAccess(i, h, amt, d) with d > 0 comes back, and when it
\* has come back HasAccess(i) is true until the record expires and false
\* after that.
C2_GrantGivesAccessUntilExpiry ==
    \A t \in Workers :
        (op[t].name = "AddPaidAccess" /\ op[t].dur > 0) =>
            /\ ~Waiting(t)
            /\ pc[t] = "ret" =>
                 /\ op[t].pubkey \in DOMAIN Members
                 /\ HasAccessValue(Members, op[t].pubkey, now)
                      <=> now <= Members[op[t].pubkey].ExpiresAt

\* C3: with access duration "1month", when the provider reports the payment
\* settled, System.VerifyPayment comes back with a verification that says paid, HasAccess of the identity is
\* true, and successfulPayments is one higher than when the call started.
C3_SettledVerificationGrants ==
    \A t \in Workers :
        (cfgDuration = "1month" /\ op[t].name = "VerifyPayment" /\ op[t].paid) =>
            /\ ~Waiting(t)
            /\ pc[t] = "ret" =>
                 /\ op[t].verif = "value"
                 /\ HasAccessValue(Members, op[t].pubkey, now)
                 /\ successfulPayments = op[t].before + 1

\* C5: the gate answers not-blocked (with the empty payload) only for an
\* identity that has access; an identity without access is blocked, and when
\* the invoice could not be created the payload is the generic message.
C5_GateFailsClosed ==
    \A t \in Workers :
        (pc[t] = "ret" /\ op[t].name = "Reject") =>
            /\ ~op[t].blocked =>
                 /\ HasAccessValue(Members, op[t].pubkey, now)
                 /\ op[t].payload = NoPayload
            /\ ~op[t].ok => op[t].blocked
            /\ (~op[t].ok /\ op[t].outcome # "ok") => op[t].payload = GenericPayload

\* C5, witness: a gate check came back blocked with the generic message after
\* the invoice could not be created.
C5_Witness ==
    \E t \in Workers :
        /\ pc[t] = "ret" /\ op[t].name = "Reject"
        /\ op[t].outcome = "neterr"
        /\ op[t].blocked /\ op[t].payload = GenericPayload

\* C6, as the specification states it: when the provider creates the invoice
\* the gate's payload carries the payment request and the configured payment
\* amount, whatever amount the provider echoes.
C6_PayloadCarriesConfiguredAmount ==
    \A t \in Workers :
        (pc[t] = "ret" /\ op[t].name = "Reject" /\ op[t].outcome = "ok") =>
            /\ op[t].blocked
            /\ op[t].payload.kind = "json"
            /\ op[t].payload.Invoice # EmptyString
            /\ op[t].payload.Amount = PaymentAmount

\* C6, amended: the payload carries the payment request and the amount of the
\* invoice the provider returned: with ZBD the echoed amount when it is a
\* number, else the configured amount; with phoenixd the configured amount.
C6_PayloadCarriesInvoiceAmount ==
    \A t \in Workers :
        (pc[t] = "ret" /\ op[t].name = "Reject" /\ op[t].outcome = "ok") =>
            /\ op[t].blocked
            /\ op[t].payload.kind = "json"
            /\ op[t].payload.Invoice # EmptyString
            /\ op[t].payload.Amount =
                 IF cfgProvider = "zbd" /\ ParseIntOk(op[t].echo)
                 THEN ParseIntValue(op[t].echo)
                 ELSE PaymentAmount

\* C6, witness: a gate check came back with an invoice whose amount is the
\* echoed one, not the configured one.
C6_Witness ==
    \E t \in Workers :
        /\ pc[t] = "ret" /\ op[t].name = "Reject" /\ op[t].outcome = "ok"
        /\ op[t].payload.kind = "json"
        /\ op[t].payload.Amount # PaymentAmount

\* C7: an identity no grant was ever applied to has no record and no access,
\* and HasAccess answers false for it; System.VerifyPayment applies a grant
\* only for a charge the backend holds as settled, the webhook handler only
\* for a notification that says completed or settled and names the identity.
C7_NeverGrantedNoAccess ==
    /\ \A i \in Pubkeys \ granted :
         /\ i \notin DOMAIN Members
         /\ ~HasAccessValue(Members, i, now)
    /\ \A t \in Workers :
         /\ (pc[t] = "ret" /\ op[t].name = "HasAccess" /\ op[t].pubkey \notin granted)
               => ~op[t].ok
         /\ (pc[t] \in {"AddPaidAccess", "Save"} /\ op[t].name = "VerifyPayment") =>
               \E n \in 1..Len(charges) :
                   /\ charges[n].PaymentHash = op[t].hash
                   /\ charges[n].Status = "completed"
         /\ (pc[t] \in {"AddPaidAccess", "Save"} /\ op[t].name = "Webhook") =>
               /\ op[t].hook.Status \in {"completed", "settled"}
               /\ op[t].hook.Description = PubkeyPrefix \o op[t].pubkey

\* C7, witness: a gate check and an invoice for P2, a grant to P1, and P2
\* still without a record.
C7_Witness ==
    /\ granted = {<<"P1">>}
    /\ paymentRequests = 1
    /\ Len(charges) = 1
    /\ pubkeyMap[charges[1].PaymentHash] = <<"P2">>
    /\ <<"P1">> \in DOMAIN Members
    /\ ~HasAccessValue(Members, <<"P2">>, now)

\* C8: a call AddPaidAccess(i, h, amt, 0) comes back; from the moment the
\* grant is applied the record's expiry is the zero sentinel and HasAccess(i)
\* is true at every time.
C8_ZeroDurationNeverExpires ==
    \A t \in Workers :
        (op[t].name = "AddPaidAccess" /\ op[t].dur = 0 /\ pc[t] # "AddPaidAccess") =>
            /\ ~Waiting(t)
            /\ op[t].pubkey \in DOMAIN Members
            /\ IsZero(Members[op[t].pubkey].ExpiresAt)
            /\ HasAccessValue(Members, op[t].pubkey, now)

\* C9: with access duration "forever" the record a verified payment or a
\* settled webhook stores has the zero sentinel as expiry, and the identity
\* has access.
C9_ForeverStoresSentinel ==
    \A t \in Workers :
        (/\ cfgDuration = "forever"
         /\ op[t].name \in {"VerifyPayment", "Webhook"}
         /\ pc[t] = "Save") =>
            /\ IsZero(Members[op[t].pubkey].ExpiresAt)
            /\ HasAccessValue(Members, op[t].pubkey, now)

\* C10: with ZBD, when the webhook handler has answered a notification of a
\* completed charge that System.CreateInvoice created for P, the answer is
\* 200 and HasAccess(P) is true.
C10_CompletedWebhookGrants ==
    \A t \in Workers :
        \A n \in 1..Len(charges) :
            (/\ cfgProvider = "zbd"
             /\ pc[t] = "ret" /\ op[t].name = "Webhook"
             /\ charges[n].Status = "completed"
             /\ op[t].hook = DeliveredHook(n)) =>
                /\ op[t].status = 200
                /\ HasAccessValue(Members, pubkeyMap[charges[n].PaymentHash], now)

\* C11: at most one grant per settled payment: no two calls are granting
\* (inside AddPaidAccess) for the same payment hash, and successfulPayments
\* never exceeds the number of settled charges.
C11_AtMostOneGrantPerPayment ==
    /\ \A t, u \in Workers :
         (/\ t # u
          /\ op[t].name = "VerifyPayment" /\ op[u].name = "VerifyPayment"
          /\ pc[t] \in {"AddPaidAccess", "Save", "Unlock"}
          /\ pc[u] \in {"AddPaidAccess", "Save", "Unlock"}) =>
             op[t].hash # op[u].hash
    /\ successfulPayments <=
         Cardinality({n \in 1..Len(charges) : charges[n].Status = "completed"})

\* C12: System.VerifyPayment grants to the identity the invoice of the payment
\* hash was created for: a call that is granting has the pubkey the provider
\* recorded for its hash.
C12_GrantOnlyToInvoiceIdentity ==
    \A t \in Workers :
        (op[t].name = "VerifyPayment" /\ pc[t] \in {"AddPaidAccess", "Save", "Unlock"}) =>
            /\ op[t].hash \in DOMAIN pubkeyMap
            /\ pubkeyMap[op[t].hash] = op[t].pubkey

\* C13: with either provider, when the backend answers the status query with
\* "record not found", System.VerifyPayment comes back with a verification
\* that says unpaid and no error, and successfulPayments is as before.
C13_NotFoundIsUnpaidWithoutError ==
    \A t \in Workers :
        (/\ pc[t] = "ret" /\ op[t].name = "VerifyPayment"
         /\ op[t].hash \in DOMAIN chargeMap
         /\ op[t].outcome = "notfound") =>
            /\ op[t].err = ""
            /\ op[t].verif = "value"
            /\ ~op[t].paid
            /\ successfulPayments = op[t].before

\* C14: when the status query fails (no response, or an unsuccessful status
\* other than "not found"), System.VerifyPayment returns an error and no
\* verification in the same step, and the members, the file, the counters
\* and the mutex are as before.
C14_FailedVerificationChangesNothing ==
    [][\A t \in Workers :
         (/\ pc[t] = "idle"
          /\ op'[t].name = "VerifyPayment"
          /\ op'[t].hash \in DOMAIN chargeMap
          /\ op'[t].outcome \in {"neterr", "httperr"}) =>
             /\ pc'[t] = "ret"
             /\ op'[t].err # ""
             /\ op'[t].verif = "nil"
             /\ UNCHANGED <<Members, file, mutexW, granted,
                            paymentRequests, successfulPayments>>]_vars

\* C14, witness: System.VerifyPayment came back with an error after the
\* backend answered with an unsuccessful status, phoenixd being the provider.
C14_Witness ==
    \E t \in Workers :
        /\ pc[t] = "ret" /\ op[t].name = "VerifyPayment"
        /\ cfgProvider = "phoenixd"
        /\ op[t].hash \in DOMAIN chargeMap
        /\ op[t].outcome = "httperr"
        /\ op[t].err # "" /\ op[t].verif = "nil"

\* C15: the scan of CleanupExpired at time now deletes exactly the records
\* whose expiry is not the zero sentinel and is before now, leaves every other
\* record as it was, does not write the file itself, and goes on to Save only
\* when it deleted a record.
C15_CleanupRemovesExactlyExpired ==
    [][(pc[Reconciler] = "CleanupExpired" /\ pc'[Reconciler] # "CleanupExpired") =>
          /\ DOMAIN Members' =
               {p \in DOMAIN Members :
                   IsZero(Members[p].ExpiresAt) \/ Members[p].ExpiresAt >= now}
          /\ \A p \in DOMAIN Members' : Members'[p] = Members[p]
          /\ file' = file
          /\ pc'[Reconciler] = "Save" <=> DOMAIN Members' # DOMAIN Members
          /\ pc'[Reconciler] \in {"Save", "Unlock"}]_vars

\* C15, witness: the scan has deleted an expired record and has kept a record
\* that never expires.
C15_Witness ==
    /\ pc[Reconciler] = "Save" /\ op[Reconciler].name = "CleanupExpired"
    /\ mutexW = Reconciler
    /\ \E p \in DOMAIN Members : IsZero(Members[p].ExpiresAt)
    /\ \E p \in granted : p \notin DOMAIN Members

\* C16: once a CleanupExpired call has made its deletions, so that no record
\* is expired any more, the call is at its return, holding the mutex only to
\* release it: a second call can follow it, finds nothing to delete, writes
\* nothing and returns.
C16_SecondCleanupIsNoOp ==
    (/\ op[Reconciler].name = "CleanupExpired"
     /\ mutexW = Reconciler
     /\ ExpiredKeys(Members, now) = {}) =>
        pc[Reconciler] = "Unlock"

\* C17: of two calls that are inside AddPaidAccess for the same identity at
\* the same time, neither waits for ever, and as soon as one of them has
\* stored its record the store holds one record for the identity, with the
\* payment hash of one of the two calls.
C17_ConcurrentGrantsBothReturn ==
    \A t, u \in Workers :
        (/\ t # u
         /\ pc[t] \in {"AddPaidAccess", "Save", "Unlock"}
         /\ pc[u] \in {"AddPaidAccess", "Save", "Unlock"}
         /\ op[t].pubkey = op[u].pubkey) =>
            /\ ~Waiting(t) /\ ~Waiting(u)
            /\ (pc[t] # "AddPaidAccess" \/ pc[u] # "AddPaidAccess") =>
                 /\ op[t].pubkey \in DOMAIN Members
                 /\ Members[op[t].pubkey].PaymentHash \in {op[t].hash, op[u].hash}

\* C18: a call of HasAccess is never left waiting for a lock that will not be
\* released, whatever AddPaidAccess calls and CleanupExpired passes run beside
\* it.
C18_HasAccessAlwaysReturns ==
    \A t \in Workers : op[t].name = "HasAccess" => ~Waiting(t)

\* C19: the cleanup routine is never left waiting for a lock that will not be
\* released: each wake gets through CleanupExpired and the mapping cleanup and
\* back to waiting for the ticker.
C19_ReconcilerKeepsRunning ==
    op[Reconciler].name = "CleanupExpired" =>
        ~(Wedged /\ pc[Reconciler] \in {"CleanupExpired", "Save"})

\* C20: a call of AddPaidAccess that has stored its record gets to write the
\* file (the read lock of Save is free for it), and when it has come back
\* with the write's error the store holds the new record of the identity.
C20_FailedWriteKeepsNewRecord ==
    \A t \in Workers :
        op[t].name = "AddPaidAccess" =>
            /\ pc[t] = "Save" => CanRLock
            /\ (pc[t] = "ret" /\ op[t].err # "") =>
                 /\ op[t].pubkey \in DOMAIN Members
                 /\ Members[op[t].pubkey].PaymentHash = op[t].hash

\* C21: when the provider reports the payment settled, the grant's file write
\* is attempted (the read lock of Save is free for the call), and when the
\* call has come back with the write's error it has come back with the
\* verification too, not with nil.
C21_PersistenceErrorKeepsVerification ==
    \A t \in Workers :
        (op[t].name = "VerifyPayment" /\ op[t].paid) =>
            /\ pc[t] = "Save" => CanRLock
            /\ (pc[t] = "ret" /\ op[t].err = "save") => op[t].verif = "value"

\* C22: with access duration "1month", a System.VerifyPayment of a settled
\* payment hash for an identity that holds no access comes back, and from the
\* moment it has stored the grant to the moment it is back the identity has
\* access.
C22_ReverificationRecoversGrant ==
    \A t \in Workers :
        (/\ cfgDuration = "1month"
         /\ op[t].name = "VerifyPayment" /\ op[t].paid
         /\ pc[t] \in {"Save", "Unlock", "ret"}) =>
            /\ HasAccessValue(Members, op[t].pubkey, now)
            /\ pc[t] \in {"Unlock", "ret"} \/ CanRLock

\* C23: the access file on disk is at every moment a whole snapshot (or is
\* absent, as before the first write): never an empty or partly written
\* document.
C23_FileIsWholeSnapshot ==
    file.state \in {"missing", "json"}

\* C25: with either provider, System.VerifyPayment for a payment hash the
\* provider holds no reference for comes back with the mapping-absent error
\* and no verification, and goes on to no grant.
C25_NoMappingIsNotFoundError ==
    \A t \in Workers :
        (op[t].name = "VerifyPayment" /\ op[t].hash = UnknownHash) =>
            /\ pc[t] = "ret"
            /\ op[t].err = "nomapping"
            /\ op[t].verif = "nil"

\* C24: with ZBD, the System's mapping store holds, for every payment hash
\* CreateInvoice has returned, the charge reference the provider keeps for
\* it.
C24_MappingStoreHoldsEveryIssuedHash ==
    cfgProvider = "zbd" =>
        \A h \in DOMAIN chargeMap :
            /\ h \in DOMAIN Mappings
            /\ Mappings[h] = chargeMap[h]

\* C27: no thread holds the access store's lock and the mapping store's lock
\* at the same time.
C27_StoresNeverLockedTogether ==
    \A t \in Threads : ~(mutexW = t /\ cmsMutex = t)

\* C27, witness: the cleanup routine holds the mapping store's lock while a
\* call of AddPaidAccess holds the access store's lock.
C27_Witness ==
    /\ cmsMutex = Reconciler
    /\ mutexW \in Workers
    /\ pc[Reconciler] = "MappingUnlock"

\* C29: when New returns an error (unknown provider name, or the selected
\* provider's credentials missing) there is no System: the access file is
\* not read and never written, no goroutine runs, and no store, lock or
\* counter ever holds anything.
C29_FailedConstructionHasNoEffect ==
    [][NewError(cfgProvider, cfgCredentials) # "" =>
          /\ Members = NoMembers /\ Mappings = NoMap
          /\ mutexW = NoThread /\ cmsMutex = NoThread
          /\ paymentRequests = 0 /\ successfulPayments = 0
          /\ \A t \in Threads : pc[t] = "none" /\ pc'[t] = "none"
          /\ UNCHANGED <<file, Members, Mappings, mutexW, cmsMutex, counterVars,
                         providerVars>>]_vars

\* C29, witness: New has returned an error for an unknown provider name, the
\* access file of an earlier run is on disk, and time has passed.
C29_Witness ==
    /\ NewError(cfgProvider, cfgCredentials) = "unsupported"
    /\ file.state = "json"
    /\ Members = NoMembers
    /\ now > StartTime

\* C26: with access duration "1month", when a grant made through
\* System.VerifyPayment or the webhook replaces the record of an identity, a
\* record that never expires stays one that never expires, and an expiry
\* does not move to an earlier time.
C26_ExpiryIsMonotonic ==
    [][\A t \in Workers :
         (/\ cfgDuration = "1month"
          /\ op[t].name \in {"VerifyPayment", "Webhook"}
          /\ pc[t] = "AddPaidAccess" /\ pc'[t] = "Save"
          /\ op[t].pubkey \in DOMAIN Members) =>
             LET old == Members[op[t].pubkey].ExpiresAt
                 new == Members'[op[t].pubkey].ExpiresAt
             IN IF IsZero(old) THEN IsZero(new)
                ELSE IsZero(new) \/ new >= old]_vars

C30_WebhookGrantsOnlySettled ==
    [][\A t \in Workers :
         (pc[t] = "idle" /\ op'[t].name = "Webhook") =>
            LET h == op'[t].hook
                settled == h.decodes /\ h.Status \in {"completed", "settled"}
                all == /\ cfgProvider = "zbd"
                       /\ settled
                       /\ extractPubkeyFromDescription(h.Description) # EmptyString
                       /\ ParseIntOk(h.Amount)
            IN /\ ~all =>
                    /\ pc'[t] = "ret"
                    /\ UNCHANGED <<Members, file, mutexW, granted, counterVars>>
               /\ (h.decodes /\ ~settled) => op'[t].status = 200
               /\ ~h.decodes => op'[t].status \notin {0, 200}]_vars

\* C30, amended: the same, with a body of another status answered with 200
\* when the provider is ZBD (with another provider every webhook request is
\* answered with 400).
C30_WebhookGrantsOnlySettledZBD ==
    [][\A t \in Workers :
         (pc[t] = "idle" /\ op'[t].name = "Webhook") =>
            LET h == op'[t].hook
                settled == h.decodes /\ h.Status \in {"completed", "settled"}
                all == /\ cfgProvider = "zbd"
                       /\ settled
                       /\ extractPubkeyFromDescription(h.Description) # EmptyString
                       /\ ParseIntOk(h.Amount)
            IN /\ ~all =>
                    /\ pc'[t] = "ret"
                    /\ UNCHANGED <<Members, file, mutexW, granted, counterVars>>
               /\ (cfgProvider = "zbd" /\ h.decodes /\ ~settled) => op'[t].status = 200
               /\ cfgProvider # "zbd" => op'[t].status = 400
               /\ ~h.decodes => op'[t].status \notin {0, 200}]_vars

\* C30, witness: with ZBD, the notification of a charge that is still pending
\* has been answered with 200 and nothing was granted.
C30_Witness ==
    \E t \in Workers :
        /\ cfgProvider = "zbd"
        /\ pc[t] = "ret" /\ op[t].name = "Webhook"
        /\ op[t].hook.decodes /\ op[t].hook.Status = "pending"
        /\ op[t].status = 200
        /\ granted = {}

\* C31: for every invoice System.CreateInvoice has created, the identity that
\* extractPubkeyFromDescription finds in the charge's description is the
\* identity the invoice was created for.
C31_DescriptionRoundTrips ==
    \A n \in 1..Len(charges) :
        extractPubkeyFromDescription(charges[n].Description)
            = pubkeyMap[charges[n].PaymentHash]

\* C32: with every access duration, from the moment System.VerifyPayment has
\* stored the grant of a paid verification (so at the moment the endpoint
\* answers access_granted) the identity has access; an unpaid verification
\* comes back at once as a verification that says unpaid, and grants nothing.
C32_AccessGrantedMeansAccess ==
    \A t \in Workers :
        op[t].name = "VerifyPayment" =>
            /\ (op[t].paid /\ pc[t] \in {"Save", "Unlock", "ret"}) =>
                 HasAccessValue(Members, op[t].pubkey, now)
            /\ (op[t].err = "" /\ ~op[t].paid) =>
                 /\ pc[t] = "ret"
                 /\ op[t].verif = "value"

\* C35: a grant that AddPaidAccess has stored gets written to the file (the
\* read lock of Save is free for the call), and when AddPaidAccess or
\* CleanupExpired has returned without error a fresh store loaded from the
\* file holds the same records as the store in memory.
C35_RecordsSurviveRestart ==
    /\ \A t \in Workers :
         (op[t].name \in {"AddPaidAccess", "VerifyPayment", "Webhook"}
            /\ pc[t] \in {"Save", "Unlock", "ret"} /\ op[t].err = "") =>
               /\ pc[t] = "Save" => CanRLock
               /\ pc[t] = "ret" => Load(file) = Members
    /\ pc[Reconciler] = "Unlock" => Load(file) = Members

\* C36: at every instant the statistics add up, and active_members is the
\* number of identities for which HasAccess answers true at that instant.
C36_StatsAgreeWithHasAccess ==
    LET stats == GetStats(Members, now)
    IN /\ stats.total_members = stats.active_members + stats.expired_members
       /\ stats.active_members =
            Cardinality({p \in Pubkeys : HasAccessValue(Members, p, now)})

\* C37: the scan of CleanupExpired changes the answer of HasAccess for no
\* identity: every record it deletes is one for which HasAccess was false.
C37_EvictionInvisibleToHasAccess ==
    [][(pc[Reconciler] = "CleanupExpired" /\ pc'[Reconciler] # "CleanupExpired") =>
          /\ \A p \in Pubkeys :
               HasAccessValue(Members', p, now) = HasAccessValue(Members, p, now)
          /\ \A p \in DOMAIN Members \ DOMAIN Members' :
               ~HasAccessValue(Members, p, now)]_vars

\* C37, witness: the scan has deleted the record of an identity, which has no
\* access, while another identity still has access.
C37_Witness ==
    /\ pc[Reconciler] = "Save"
    /\ \E p \in granted \ DOMAIN Members : ~HasAccessValue(Members, p, now)
    /\ \E p \in Pubkeys : HasAccessValue(Members, p, now)

\* C38: with ZBD, a verification that says paid is of a charge whose status
\* is "completed", and every status with which the webhook handler goes on to
\* a grant is a status that VerifyPayment reports as paid.
C38_GrantPathsAgreeOnSettled ==
    \A t \in Workers :
        /\ (cfgProvider = "zbd" /\ op[t].name = "VerifyPayment" /\ op[t].paid) =>
              charges[ChargeWithId(chargeMap[op[t].hash])].Status = "completed"
        /\ (op[t].name = "Webhook" /\ op[t].paid) =>
              ZBDPaid(op[t].hook.Status)

\* C34: the mapping store behaves as a map within one process. When
\* Store(h, c) returns, h maps to c, every other entry is what it was, and
\* the call returns an error whenever the file does not hold the new map,
\* the entry being set all the same. Get(h) reports found exactly when h is
\* in the map, with the value stored there, and changes nothing. Nothing
\* but a Store (or a restart, which reloads the file) changes the map.
C34_StoreBehavesAsMap ==
    [][/\ \A t \in Workers :
            (op[t].name = "Store" /\ pc[t] = "Store" /\ pc'[t] = "ret") =>
                /\ DOMAIN Mappings' = DOMAIN Mappings \cup {op[t].hash}
                /\ Mappings'[op[t].hash] = op[t].ref
                /\ \A x \in DOMAIN Mappings \ {op[t].hash} : Mappings'[x] = Mappings[x]
                /\ mappingFile' # JsonMappingFile(Mappings') => op'[t].err # ""
       /\ \A t \in Workers :
            (pc[t] = "idle" /\ op'[t].name = "Get") =>
                /\ op'[t].found = (op'[t].hash \in DOMAIN Mappings)
                /\ op'[t].found => op'[t].ref = Mappings[op'[t].hash]
                /\ Mappings' = Mappings
       /\ Mappings' # Mappings =>
            \/ \E t \in Workers : pc[t] = "Store" /\ pc'[t] = "ret"
            \/ /\ \A t \in Workers : pc[t] = "idle"
               /\ Mappings' = LoadMappings(mappingFile)]_vars

\* A Store has returned the write's error, its entry is set, and an entry
\* stored earlier under another hash is still there.
C34_Witness ==
    \E t \in Workers :
        /\ pc[t] = "ret"
        /\ op[t].name = "Store"
        /\ op[t].err = "save"
        /\ op[t].hash \in DOMAIN Mappings
        /\ Mappings[op[t].hash] = op[t].ref
        /\ \E x \in DOMAIN Mappings : x # op[t].hash

\* C39: phoenixd's unit conversion is consistent. When CreateInvoice has
\* built the invoice for the canonical amount a, the backend was asked for
\* max(1, a div 1000) sat, the invoice reports a, and the amount
\* VerifyPayment reports once those sat are received in full equals the
\* invoice's amount.
C39_PhoenixdAmountsAgree ==
    [][\A t \in Workers :
          (cfgProvider = "phoenixd" /\ pc[t] = "idle" /\ pc'[t] = "muLock"
             /\ op'[t].name = "CreateInvoice") =>
                LET c == charges'[Len(charges')]
                    a == op'[t].amount
                IN /\ c.AmountSat = (IF a < 1000 THEN 1 ELSE a \div 1000)
                   /\ PhoenixdAmountMsat(c.AmountSat) = a]_vars

\* C40: CheckExistingPayments cannot get stuck on the provider's lock.
\* A thread that holds the read lock never has to re-acquire it while a
\* writer is waiting in Lock: in that state the writer waits for the
\* reader's RUnlock and the reader waits behind the writer, for ever.
C40_CheckExistingNeverDeadlocks ==
    \A t \in Workers :
        ~(/\ op[t].name = "CheckExistingPayments"
          /\ pc[t] = "verifyRLock"
          /\ muReaders[t] > 0
          /\ \E u \in Workers \ {t} : u \in muPending /\ pc[u] = "muLockWait")

\* C33: with a mapping store attached, every hash the provider has issued
\* resolves to its reference, from the cache or else from the durable
\* store, and to the same reference from both; so it still resolves after
\* a restart has emptied the cache. (A hash whose CreateInvoice has not yet
\* written the maps is not issued yet.)
C33_IssuedHashResolvesAfterRestart ==
    chargeMappingStorage # "nil" =>
        \A n \in 1..Len(charges) :
            LET h == charges[n].PaymentHash
            IN (\A t \in Workers : ~(op[t].name = "CreateInvoice" /\ op[t].hash = h)) =>
                  /\ h \in DOMAIN chargeMap \cup DOMAIN Mappings
                  /\ h \in DOMAIN chargeMap \cap DOMAIN Mappings =>
                        chargeMap[h] = Mappings[h]

====
